---- MODULE Spec2Model ----
(***************************************************************************)
(* A model of the OP.GG ARAM visualizer (src/main.py): the name normalizer, *)
(* the scraper (page fetch, table extraction, image prefetch) and the Tk    *)
(* application that runs the scraper on a worker thread and receives the    *)
(* outcome through root.after callbacks.                                    *)
(*                                                                          *)
(* Python str values are TLA+ strings; a character is a string of length 1. *)
(* Python None is the model value None below.                               *)
(***************************************************************************)
EXTENDS Integers, Sequences, FiniteSets, TLC

VARIABLES
    champ_var,   \* AramBuildApp.champ_var: the text of the name entry
    fetch_btn,   \* state of AramBuildApp.fetch_btn: "normal" or "disabled"
    status_lbl,  \* AramBuildApp.status_lbl: [text, foreground]
    tabs,        \* AramBuildApp.tabs: category -> the widgets packed in its frame
    photo_refs,  \* AramBuildApp.photo_refs: the decoded images kept alive
    threads,     \* the worker threads started by on_fetch_click, by search number
    after_q,     \* callbacks handed to root.after(0, ...), not yet run
    delivered,   \* history: the callbacks the main loop has run, in order
    http_log,    \* history: the session.get calls of each search, in order
    arg,         \* argument of normalize_champion_name (normalizer specification)
    ret          \* <<>> before the call, <<result>> after it

vars == <<champ_var, fetch_btn, status_lbl, tabs, photo_refs, threads, after_q,
          delivered, http_log, arg, ret>>

None == "<None>"

\* F(x), with x evaluated once: a local variable of the code
Let(x, F(_)) == CHOOSE y \in {F(v) : v \in {x}} : TRUE

---------------------------------------------------------------------------
(* Strings *)

At(s, i) == SubSeq(s, i, i)

UPPER == "ABCDEFGHIJKLMNOPQRSTUVWXYZ"
LOWER == "abcdefghijklmnopqrstuvwxyz"

AZ == {At(LOWER, i) : i \in 1..Len(LOWER)}

\* str.lower() on one character: A-Z and the Latin-1 capital E-acute have a
\* lowercase form, every other character of the model is its own lowercase.
LowerOfUpper == [c \in {At(UPPER, i) : i \in 1..Len(UPPER)} |->
                    At(LOWER, CHOOSE i \in 1..Len(UPPER) : At(UPPER, i) = c)]

LowerChar(c) ==
    IF c \in DOMAIN LowerOfUpper THEN LowerOfUpper[c]
    ELSE IF c = "É" THEN "é" ELSE c

\* str.lower()
RECURSIVE LowerFrom(_, _)
LowerFrom(s, i) ==
    IF i > Len(s) THEN "" ELSE LowerChar(At(s, i)) \o LowerFrom(s, i + 1)

str_lower(s) == Let(s, LAMBDA v : LowerFrom(v, 1))

\* re.sub(r'[^a-z]', '', s)
RECURSIVE OnlyAZFrom(_, _)
OnlyAZFrom(s, i) ==
    IF i > Len(s) THEN ""
    ELSE (IF At(s, i) \in AZ THEN At(s, i) ELSE "") \o OnlyAZFrom(s, i + 1)

re_sub_non_az(s) == Let(s, LAMBDA v : OnlyAZFrom(v, 1))

\* A slip the examples of C6 expose: the character class lets spaces through.
RECURSIVE OnlyAZAndSpaceFrom(_, _)
OnlyAZAndSpaceFrom(s, i) ==
    IF i > Len(s) THEN ""
    ELSE (IF At(s, i) \in AZ \cup {" "} THEN At(s, i) ELSE "")
         \o OnlyAZAndSpaceFrom(s, i + 1)

normalize_keeps_space(name) == Let(str_lower(name), LAMBDA v : OnlyAZAndSpaceFrom(v, 1))

normalize_champion_name(name) == re_sub_non_az(str_lower(name))

Whitespace == {" ", "\t", "\n"}

\* str.strip()
str_strip(s) ==
    Let(s, LAMBDA v :
        IF \A i \in 1..Len(v) : At(v, i) \in Whitespace THEN ""
        ELSE SubSeq(v,
                    CHOOSE a \in 1..Len(v) :
                        /\ At(v, a) \notin Whitespace
                        /\ \A k \in 1..(a - 1) : At(v, k) \in Whitespace,
                    CHOOSE b \in 1..Len(v) :
                        /\ At(v, b) \notin Whitespace
                        /\ \A k \in (b + 1)..Len(v) : At(v, k) \in Whitespace))

\* Python's  needle in haystack  for strings
Contains(haystack, needle) ==
    \E i \in 0..(Len(haystack) - Len(needle)) :
        SubSeq(haystack, i + 1, i + Len(needle)) = needle

startswith(s, prefix) ==
    Len(s) >= Len(prefix) /\ SubSeq(s, 1, Len(prefix)) = prefix

---------------------------------------------------------------------------
(* The parsed page.  A document is what BeautifulSoup's queries in the      *)
(* scraper can see of it:                                                   *)
(*   text    the page text outside the th elements and the stats cells      *)
(*   blocks  in document order, each the th elements of one table, or th    *)
(*           elements that have no table ancestor (table = FALSE);          *)
(*           tbody says whether table.find("tbody") finds a body, rows are  *)
(*           that body's tr elements in document order.                     *)
(* A row: ncols = len(row.find_all("td")); imgs = the img elements of       *)
(* cols[0]; pick / games = the text of the first strong / span of cols[1],  *)
(* win = the text of the first strong of cols[2], None when there is none.  *)
(* An img: its src and alt attributes (None when absent), whether it has a  *)
(* div.relative ancestor, and the text of the first div.absolute inside     *)
(* that ancestor (None when there is none).                                 *)

Categories == {"Core Builds", "Starter Items", "Boots", "Skills"}

\* the insertion order of the results dict (lines 160-165), which
\* results.values() and results.items() follow
CategoryOrder == <<"Core Builds", "Starter Items", "Boots", "Skills">>

\* the header text each category is searched by (lines 161-164)
header_text_of(category) == IF category = "Skills" THEN "Skill" ELSE category

DIGITS == "0123456789"

IsDigit(c) == \E i \in 1..Len(DIGITS) : At(DIGITS, i) = c

DigitValue(c) == (CHOOSE i \in 1..Len(DIGITS) : At(DIGITS, i) = c) - 1

Unsigned(t) == IF Len(t) > 0 /\ At(t, 1) \in {"+", "-"} THEN SubSeq(t, 2, Len(t)) ELSE t

\* Whether int(text) returns: surrounding whitespace, an optional sign, then
\* digits with single underscores between them.  Otherwise it raises ValueError.
int_accepts(text) ==
    \E b \in {Unsigned(str_strip(text))} :
        /\ Len(b) > 0
        /\ IsDigit(At(b, 1)) /\ IsDigit(At(b, Len(b)))
        /\ \A i \in 1..Len(b) : IsDigit(At(b, i)) \/ At(b, i) = "_"
        /\ \A i \in 1..(Len(b) - 1) : ~(At(b, i) = "_" /\ At(b, i + 1) = "_")

\* the number written by the first n characters of digits and underscores
RECURSIVE DigitsValue(_, _)
DigitsValue(b, n) ==
    IF n = 0 THEN 0
    ELSE IF At(b, n) = "_" THEN DigitsValue(b, n - 1)
    ELSE DigitsValue(b, n - 1) * 10 + DigitValue(At(b, n))

\* int(text), where int_accepts(text)
int_value(text) ==
    Let(str_strip(text), LAMBDA t :
        Let(Unsigned(t), LAMBDA b :
            IF At(t, 1) = "-" THEN 0 - DigitsValue(b, Len(b)) ELSE DigitsValue(b, Len(b))))

\* bool(img.get('src'))
has_src(img_tag) == img_tag.src # None /\ img_tag.src # ""

\* A slip C8 guards against: the fallback of the except branch is 0, not 1.
extract_item_details_default_0(img_tag) ==
    [name       |-> IF img_tag.alt = None THEN "Unknown Item" ELSE img_tag.alt,
     image_url  |-> IF img_tag.src = None THEN "" ELSE img_tag.src,
     count      |-> IF img_tag.relative /\ img_tag.badge # None
                    THEN Let(str_strip(img_tag.badge), LAMBDA text :
                             IF int_accepts(text) THEN int_value(text) ELSE 0)
                    ELSE 1,
     image_data |-> None]

\* OpGgAramScraper._extract_item_details
_extract_item_details(img_tag) ==
    [name       |-> IF img_tag.alt = None THEN "Unknown Item" ELSE img_tag.alt,
     image_url  |-> IF img_tag.src = None THEN "" ELSE img_tag.src,
     count      |-> IF img_tag.relative                         \* parent_div
                    THEN IF img_tag.badge # None                \* count_div
                         THEN Let(str_strip(img_tag.badge),     \* get_text(strip=True)
                                  LAMBDA text :
                                      IF int_accepts(text) THEN int_value(text)
                                      ELSE 1)                   \* except ValueError
                         ELSE 1
                    ELSE 1,
     image_data |-> None]

\* Whether _extract_item_details raises: the only raising call is int(), and
\* its ValueError is caught (lines 117-120).
_extract_item_details_raises(img_tag) == FALSE

\* the list comprehension of line 146
items_of(images) ==
    Let(SelectSeq(images, has_src),
        LAMBDA with_src : [k \in 1..Len(with_src) |-> _extract_item_details(with_src[k])])

\* A slip C7 guards against: the test of line 141 off by one.
row_skipped_below_4(row) == row.ncols < 4

\* line 141:  if not cols or len(cols) < 3: continue
row_skipped(row) == row.ncols = 0 \/ row.ncols < 3

\* lines 144-155: the BuildRow of a row that is not skipped
build_row(row) ==
    [items     |-> items_of(row.imgs),
     win_rate  |-> IF row.win # None THEN str_strip(row.win) ELSE "N/A",
     pick_rate |-> IF row.pick # None THEN str_strip(row.pick) ELSE "N/A",
     games     |-> IF row.games # None THEN str_strip(row.games) ELSE "N/A"]

\* the loop of lines 139-155
rows_data(rows) ==
    Let(SelectSeq(rows, LAMBDA row : ~row_skipped(row)),
        LAMBDA kept : [j \in 1..Len(kept) |-> build_row(kept[j])])

\* the lambda of line 127, for the th elements of one block
block_matches(block, header_text) ==
    \E wanted \in {str_lower(header_text)} :
        \E i \in 1..Len(block.th) :
            \E text \in {str_lower(block.th[i])} : Contains(text, wanted)

\* soup.find(...) of line 127: the first block with a matching th, 0 for None
RECURSIVE FindHeader(_, _, _)
FindHeader(soup, header_text, b) ==
    IF b > Len(soup.blocks) THEN 0
    ELSE IF block_matches(soup.blocks[b], header_text) THEN b
    ELSE FindHeader(soup, header_text, b + 1)

\* A slip C9 guards against: a category whose header is missing falls back to
\* the first table of the page.
extract_table_fallback_first(soup, header_text) ==
    Let(FindHeader(soup, header_text, 1),
        LAMBDA header :
            IF soup.blocks = <<>> THEN <<>>
            ELSE IF header = 0
            THEN IF soup.blocks[1].table /\ soup.blocks[1].tbody
                 THEN rows_data(soup.blocks[1].rows) ELSE <<>>
            ELSE IF ~soup.blocks[header].table THEN <<>>
            ELSE IF ~soup.blocks[header].tbody THEN <<>>
            ELSE rows_data(soup.blocks[header].rows))

\* OpGgAramScraper._extract_table_by_header
_extract_table_by_header(soup, header_text) ==
    Let(FindHeader(soup, header_text, 1),
        LAMBDA header :
            IF header = 0 THEN <<>>                         \* not header
            ELSE IF ~soup.blocks[header].table THEN <<>>    \* not table
            ELSE IF ~soup.blocks[header].tbody THEN <<>>    \* not tbody
            ELSE rows_data(soup.blocks[header].rows))

\* Whether _extract_table_by_header raises: only through _extract_item_details.
_extract_table_by_header_raises(soup, header_text) ==
    \E header \in {FindHeader(soup, header_text, 1)} :
        /\ header # 0
        /\ soup.blocks[header].table
        /\ soup.blocks[header].tbody
        /\ \E r \in 1..Len(soup.blocks[header].rows) :
              /\ ~row_skipped(soup.blocks[header].rows[r])
              /\ \E i \in 1..Len(soup.blocks[header].rows[r].imgs) :
                    /\ has_src(soup.blocks[header].rows[r].imgs[i])
                    /\ _extract_item_details_raises(soup.blocks[header].rows[r].imgs[i])

\* lines 160-165 of get_all_data: the results dict before the image prefetch
get_all_data_tables(soup) ==
    [category \in Categories |-> _extract_table_by_header(soup, header_text_of(category))]

get_all_data_tables_raises(soup) ==
    \E category \in Categories :
        _extract_table_by_header_raises(soup, header_text_of(category))

\* soup.text: the text of the whole page, th elements and stats cells included
RECURSIVE JoinText(_, _)
JoinText(strings, i) ==
    IF i > Len(strings) THEN ""
    ELSE (IF strings[i] = None THEN "" ELSE strings[i]) \o JoinText(strings, i + 1)

RECURSIVE RowsText(_, _)
RowsText(rows, r) ==
    IF r > Len(rows) THEN ""
    ELSE JoinText(<<rows[r].pick, rows[r].games, rows[r].win>>, 1) \o RowsText(rows, r + 1)

RECURSIVE BlocksText(_, _)
BlocksText(blocks, b) ==
    IF b > Len(blocks) THEN ""
    ELSE JoinText(blocks[b].th, 1) \o RowsText(blocks[b].rows, 1) \o BlocksText(blocks, b + 1)

soup_text(soup) == soup.text \o BlocksText(soup.blocks, 1)

\* the positions <<category, row, item>> of the items in the order of the
\* prefetch loops (lines 168-170)
RECURSIVE ItemsOfRow(_, _, _)
ItemsOfRow(category, r, n) ==
    IF n = 0 THEN <<>> ELSE Append(ItemsOfRow(category, r, n - 1), <<category, r, n>>)

RECURSIVE ItemsOfRows(_, _, _)
ItemsOfRows(category, rows, n) ==
    IF n = 0 THEN <<>>
    ELSE ItemsOfRows(category, rows, n - 1) \o ItemsOfRow(category, n, Len(rows[n].items))

RECURSIVE ItemsOfCategories(_, _)
ItemsOfCategories(results, n) ==
    IF n = 0 THEN <<>>
    ELSE ItemsOfCategories(results, n - 1)
         \o ItemsOfRows(CategoryOrder[n], results[CategoryOrder[n]],
                        Len(results[CategoryOrder[n]]))

all_items(results) == ItemsOfCategories(results, Len(CategoryOrder))

\* line 99-100: the URL that fetch_image_bytes requests
image_request_url(url) == IF startswith(url, "//") THEN "https:" \o url ELSE url

\* A slip C10 guards against: any response without an exception counts.
fetch_image_bytes_any_status(resp) ==
    IF resp.exc # None THEN None ELSE resp.content

\* OpGgAramScraper.fetch_image_bytes, given what session.get did
fetch_image_bytes(resp) ==
    IF resp.exc # None THEN None              \* except Exception
    ELSE IF resp.status = 200 THEN resp.content
    ELSE None

\* Whether fetch_image_bytes raises: every Exception is caught (line 104).
fetch_image_bytes_raises(resp) == FALSE

---------------------------------------------------------------------------
(* The worker thread.  A thread is                                          *)
(*   pc       "fetch_page", "get_all_data" (line 276 reached), "prefetch"   *)
(*            (the loops of lines 169-172), "done" (returned), "crashed"    *)
(*            (ended by an uncaught exception)                              *)
(*   url      the argument of _worker_thread                                *)
(*   soup     <<>> for None, <<document>> otherwise                         *)
(*   results  <<>> before line 160, <<the results dict>> after              *)
(*   cursor   index in all_items(results) of the next item of the prefetch  *)
(* An Optional value that is not a string is <<>> (None) or <<value>>.      *)

\* what session.get(url, timeout=5) can do for an image: return a response,
\* or raise
ImageResponses ==
    {[exc |-> None, status |-> 200, content |-> "PNG"],
     [exc |-> None, status |-> 404, content |-> "missing"],
     [exc |-> "Timeout", status |-> 0, content |-> None]}

LogEntry(sid, kind, url, resp) ==
    [sid |-> sid, kind |-> kind, url |-> url,
     exc |-> resp.exc, status |-> resp.status, content |-> resp.content]

\* a thread as threading.Thread(...).start() leaves it
Started(pc, url, soup) ==
    [pc |-> pc, url |-> url, soup |-> soup, results |-> <<>>, cursor |-> 0]

Callback(kind, sid, results) == [kind |-> kind, sid |-> sid, results |-> results]

\* line 276, up to the image prefetch: the four extractions
GetAllDataTables(w) ==
    /\ threads[w].pc = "get_all_data"
    /\ IF get_all_data_tables_raises(threads[w].soup[1])
       THEN threads' = [threads EXCEPT ![w].pc = "crashed"]
       ELSE threads' = [threads EXCEPT
                          ![w].pc = "prefetch",
                          ![w].results = <<get_all_data_tables(threads[w].soup[1])>>,
                          ![w].cursor = 1]
    /\ UNCHANGED <<champ_var, fetch_btn, status_lbl, tabs, photo_refs, after_q,
                   delivered, http_log, arg, ret>>

\* one round of the loop of lines 170-172
FetchImage(w) ==
    /\ threads[w].pc = "prefetch"
    /\ threads[w].cursor <= Len(all_items(threads[w].results[1]))
    /\ \E results \in {threads[w].results[1]} :
       \E pos \in {all_items(results)[threads[w].cursor]} :
       \E item \in {results[pos[1]][pos[2]].items[pos[3]]} :
           IF item.image_url # ""
           THEN \E resp \in ImageResponses :
                  /\ http_log' = [http_log EXCEPT ![w] = Append(@,
                         LogEntry(w, "image", image_request_url(item.image_url), resp))]
                  /\ threads' = [threads EXCEPT ![w] =
                         IF fetch_image_bytes_raises(resp)
                         THEN [@ EXCEPT !.pc = "crashed"]
                         ELSE [@ EXCEPT
                                 !.results = <<[results EXCEPT
                                     ![pos[1]][pos[2]].items[pos[3]].image_data =
                                         fetch_image_bytes(resp)]>>,
                                 !.cursor = @ + 1]]
           ELSE /\ threads' = [threads EXCEPT ![w].cursor = @ + 1]
                /\ UNCHANGED http_log
    /\ UNCHANGED <<champ_var, fetch_btn, status_lbl, tabs, photo_refs, after_q,
                   delivered, arg, ret>>

\* line 173 and line 277: get_all_data returns, the results are handed over
WorkerReturn(w) ==
    /\ threads[w].pc = "prefetch"
    /\ threads[w].cursor > Len(all_items(threads[w].results[1]))
    /\ after_q' = Append(after_q, Callback("_update_ui", w, threads[w].results))
    /\ threads' = [threads EXCEPT ![w].pc = "done"]
    /\ UNCHANGED <<champ_var, fetch_btn, status_lbl, tabs, photo_refs, delivered,
                   http_log, arg, ret>>

\* AramBuildApp.__init__ and _build_layout: the window before any event
Constructed ==
    /\ champ_var = "Vel'Koz"
    /\ fetch_btn = "normal"
    /\ status_lbl = [text |-> "Ready", foreground |-> "gray"]
    /\ tabs = [category \in Categories |-> <<>>]
    /\ photo_refs = <<>>
    /\ threads = <<>> /\ after_q = <<>>
    /\ delivered = <<>> /\ http_log = <<>>

---------------------------------------------------------------------------
(* The page request, and the application around the worker *)

\* A slip C5 guards against: raise_for_status() is not called, so an error
\* page is parsed like any other.
fetch_page_unchecked(resp) ==
    IF resp.exc # None THEN <<>>
    ELSE IF resp.status = 404 THEN <<>>
    ELSE <<resp.body>>

\* OpGgAramScraper.fetch_page, given what session.get did: <<>> is None.
\* raise_for_status() raises HTTPError, a RequestException, for the statuses
\* 400-599 and for no other.
fetch_page(resp) ==
    IF resp.exc # None THEN <<>>                               \* except RequestException
    ELSE IF resp.status = 404 THEN <<>>                        \* line 88
    ELSE IF resp.status >= 400 /\ resp.status < 600 THEN <<>>  \* raise_for_status()
    ELSE <<resp.body>>

\* lines 266-276: what _worker_thread does with the page it got
after_fetch(soup) ==
    IF soup = <<>> THEN "_handle_error"
    ELSE Let(soup_text(soup[1]),
             LAMBDA text :
                 IF ~Contains(text, "Core Builds") /\ ~Contains(text, "Starter Items")
                 THEN "_handle_not_found"
                 ELSE "get_all_data")

\* lines 264-274: the page request and the two early exits
FetchPage(w, resp) ==
    /\ threads[w].pc = "fetch_page"
    /\ http_log' = [http_log EXCEPT ![w] =
                        Append(@, LogEntry(w, "page", threads[w].url, resp))]
    /\ \E next \in {after_fetch(fetch_page(resp))} :
          IF next = "get_all_data"
          THEN /\ threads' = [threads EXCEPT ![w].pc = "get_all_data",
                                             ![w].soup = fetch_page(resp)]
               /\ UNCHANGED after_q
          ELSE /\ threads' = [threads EXCEPT ![w].pc = "done", ![w].soup = fetch_page(resp)]
               /\ after_q' = Append(after_q, Callback(next, w, <<>>))
    /\ UNCHANGED <<champ_var, fetch_btn, status_lbl, tabs, photo_refs, delivered, arg, ret>>

\* AramBuildApp.on_fetch_click
on_fetch_click ==
    LET raw_name == str_strip(champ_var)
    IN  IF raw_name = "" THEN UNCHANGED vars
        ELSE LET clean_name == normalize_champion_name(raw_name)
                 url == "https://op.gg/lol/modes/aram/" \o clean_name \o "/build"
             IN  /\ fetch_btn' = "disabled"
                 /\ status_lbl' = [text |-> "Searching for '" \o clean_name \o "'...",
                                   foreground |-> "blue"]
                 /\ photo_refs' = <<>>
                 /\ tabs' = [category \in DOMAIN tabs |-> <<>>]
                 /\ threads' = Append(threads, Started("fetch_page", url, <<>>))
                 /\ http_log' = Append(http_log, <<>>)
                 /\ UNCHANGED <<champ_var, after_q, delivered, arg, ret>>

\* A slip C3 guards against: the handler leaves the button disabled.
handle_error_keeps_disabled(btn) == btn

\* the state of fetch_btn after _handle_error (line 282)
handle_error_btn(btn) == "normal"

\* AramBuildApp._handle_error, run by the main loop
HandleError ==
    /\ after_q # <<>> /\ Head(after_q).kind = "_handle_error"
    /\ status_lbl' = [text |-> "Connection Error", foreground |-> "red"]
    /\ fetch_btn' = handle_error_btn(fetch_btn)
    /\ after_q' = Tail(after_q)
    /\ delivered' = Append(delivered, Head(after_q))
    /\ UNCHANGED <<champ_var, tabs, photo_refs, threads, http_log, arg, ret>>

\* AramBuildApp._handle_not_found, run by the main loop
HandleNotFound ==
    /\ after_q # <<>> /\ Head(after_q).kind = "_handle_not_found"
    /\ status_lbl' = [text |-> "Champion Not Found", foreground |-> "red"]
    /\ fetch_btn' = "normal"
    /\ after_q' = Tail(after_q)
    /\ delivered' = Append(delivered, Head(after_q))
    /\ UNCHANGED <<champ_var, tabs, photo_refs, threads, http_log, arg, ret>>

\* Image.open succeeds on the bytes of an image
Decodable(data) == data = "PNG"

\* lines 321-338: the widget of one item
item_widget(item) ==
    IF item.image_data # None /\ item.image_data # ""
    THEN IF Decodable(item.image_data)
         THEN [kind |-> "image", image |-> item.image_data,
               label |-> IF item.count > 1 THEN "x" \o ToString(item.count) ELSE None]
         ELSE [kind |-> "text", image |-> None, label |-> "?"]
    ELSE [kind |-> "text", image |-> None,
          label |-> SubSeq(item.name, 1, IF Len(item.name) < 5 THEN Len(item.name) ELSE 5)]

\* lines 306-338: the frame of one row; sid (history) is the search it shows
row_widget(sid, row_data) ==
    [kind |-> "row", sid |-> sid, data |-> row_data,
     items |-> [i \in 1..Len(row_data.items) |-> item_widget(row_data.items[i])]]

row_widgets(sid, rows) == [i \in 1..Len(rows) |-> row_widget(sid, rows[i])]

\* lines 291-338: what _update_ui packs into the frame of one category
category_widgets(sid, rows) ==
    <<[kind |-> "header", sid |-> sid, data |-> <<>>, items |-> <<>>]>>
    \o (IF rows = <<>>
        THEN <<[kind |-> "No data found.", sid |-> sid, data |-> <<>>, items |-> <<>>]>>
        ELSE row_widgets(sid, rows))

\* line 329: the images _update_ui appends to photo_refs
RECURSIVE new_photo_refs(_, _, _)
new_photo_refs(results, positions, k) ==
    IF k > Len(positions) THEN <<>>
    ELSE (IF item_widget(results[positions[k][1]][positions[k][2]].items[positions[k][3]]).kind
              = "image"
          THEN <<results[positions[k][1]][positions[k][2]].items[positions[k][3]].image_data>>
          ELSE <<>>)
         \o new_photo_refs(results, positions, k + 1)

\* AramBuildApp._update_ui, run by the main loop
UpdateUi ==
    /\ after_q # <<>> /\ Head(after_q).kind = "_update_ui"
    /\ \E sid \in {Head(after_q).sid} :
       \E results \in {Head(after_q).results[1]} :
       \E positions \in {all_items(results)} :
           /\ tabs' = [category \in DOMAIN tabs |->
                          tabs[category] \o category_widgets(sid, results[category])]
           /\ photo_refs' = photo_refs \o new_photo_refs(results, positions, 1)
    /\ status_lbl' = [text |-> "Success", foreground |-> "green"]
    /\ fetch_btn' = "normal"
    /\ after_q' = Tail(after_q)
    /\ delivered' = Append(delivered, Head(after_q))
    /\ UNCHANGED <<champ_var, threads, http_log, arg, ret>>

---------------------------------------------------------------------------
(* The scraper on its own: get_all_data on each document of ScrapeDocs.    *)

Img(src, alt, relative, badge) ==
    [src |-> src, alt |-> alt, relative |-> relative, badge |-> badge]

Row(ncols, imgs, pick, games, win) ==
    [ncols |-> ncols, imgs |-> imgs, pick |-> pick, games |-> games, win |-> win]

Table(th, rows) == [th |-> th, table |-> TRUE, tbody |-> TRUE, rows |-> rows]

SeqsUpTo(S, n) == UNION {[1..k -> S] : k \in 0..n}

RECURSIVE StringsUpTo(_, _)
StringsUpTo(alphabet, n) ==
    IF n = 0 THEN {""}
    ELSE LET shorter == StringsUpTo(alphabet, n - 1)
         IN  shorter \cup {s \o c : s \in shorter, c \in alphabet}

\* (1) one table, one row, one image: every badge text up to MaxBadgeLen
MaxBadgeLen == 2

BadgeAlphabet == {"-", "+", "_", "0", "3", "x", " "}

ItemImgs ==
    {Img("//cdn/item.png", alt, FALSE, None) : alt \in {None, "Tear"}}
    \cup {Img("//cdn/item.png", "Tear", TRUE, badge) :
             badge \in StringsUpTo(BadgeAlphabet, MaxBadgeLen) \cup {None}}

ItemDocs ==
    {[text |-> "", blocks |-> <<Table(<<"Core Builds">>,
                                     <<Row(3, <<img>>, "12%", "1,024", "55%")>>)>>] :
        img \in ItemImgs}

\* (2) one table of up to MaxRows rows
MaxRows == 2

RowSet ==
    LET boots == Img("https://cdn/a.png", "Boots", TRUE, "2")
    IN  {Row(2, <<boots>>, " 12.5% ", "1,024", "55%"),
         Row(2, <<>>, None, None, None),
         Row(0, <<>>, None, None, None),
         Row(3, <<>>, None, None, None),
         Row(3, <<boots>>, " 30% ", "2,048", "61%"),
         Row(4, <<boots>>, "9%", None, None),
         Row(3, <<Img(None, "NoSrc", FALSE, None), Img("", "EmptySrc", FALSE, None),
                  Img("//cdn/b.png", None, TRUE, "x")>>, None, "", "48.1%")}

RowDocs ==
    {[text |-> "", blocks |-> <<Table(<<"Core Builds Overview", "Pick Rate">>, rows)>>] :
        rows \in SeqsUpTo(RowSet, MaxRows)}

\* (3) for each category one of four shapes of its part of the page, after
\* an optional table whose header names two categories
Shapes == {"absent", "loose", "nobody", "rows"}

HeaderOnPage(category) ==
    CASE category = "Core Builds" -> "Core Builds Overview"
      [] category = "Starter Items" -> "STARTER ITEMS"
      [] category = "Boots" -> "Boots"
      [] category = "Skills" -> "Skill Order"

IconOf(category) ==
    IF category \in {"Core Builds", "Starter Items"}
    THEN "//cdn/tear.png" ELSE "https://cdn/" \o category \o ".png"

PartOf(category, shape) ==
    LET th == <<HeaderOnPage(category), "Win Rate">>
        img == Img(IconOf(category), category, TRUE, None)
    IN  CASE shape = "absent" -> <<>>
          [] shape = "loose"  -> <<[th |-> th, table |-> FALSE, tbody |-> FALSE, rows |-> <<>>]>>
          [] shape = "nobody" -> <<[th |-> th, table |-> TRUE, tbody |-> FALSE, rows |-> <<>>]>>
          [] shape = "rows"   -> <<Table(th, <<Row(3, <<img>>, "60%", "10", "51%")>>)>>

TwoCategoryTable ==
    Table(<<"Starter Items and Boots">>,
          <<Row(3, <<Img("//cdn/tear.png", "Tear", TRUE, "2")>>, "5%", "3", "40%")>>)

PageDocs ==
    {[text |-> "Vel'Koz ARAM",
      blocks |-> (IF two THEN <<TwoCategoryTable>> ELSE <<>>)
                 \o PartOf("Core Builds", shape["Core Builds"])
                 \o PartOf("Starter Items", shape["Starter Items"])
                 \o PartOf("Boots", shape["Boots"])
                 \o PartOf("Skills", shape["Skills"])] :
        two \in BOOLEAN, shape \in [Categories -> Shapes]}

ScrapeDocs == ItemDocs \cup RowDocs \cup PageDocs

ScrapeInit ==
    /\ champ_var = "Vel'Koz"
    /\ fetch_btn = "normal"
    /\ status_lbl = [text |-> "Ready", foreground |-> "gray"]
    /\ tabs = [category \in Categories |-> <<>>]
    /\ photo_refs = <<>>
    /\ after_q = <<>> /\ delivered = <<>> /\ http_log = << <<>> >>
    /\ arg = "" /\ ret = <<>>
    /\ \E soup \in ScrapeDocs :
           threads = <<Started("get_all_data", "https://op.gg/lol/modes/aram/velkoz/build",
                               <<soup>>)>>

ScrapeNext ==
    \/ \E w \in 1..Len(threads) : GetAllDataTables(w)
    \/ \E w \in 1..Len(threads) : FetchImage(w)
    \/ \E w \in 1..Len(threads) : WorkerReturn(w)

SpecScrape == ScrapeInit /\ [][ScrapeNext]_vars

---------------------------------------------------------------------------
(* What the scraper's claims read off a state *)

\* the first block of the page with a th whose text contains header_text,
\* case-insensitively: <<>> when there is none
TheTable(soup, header_text) ==
    LET wanted == str_lower(header_text)
        matching == {b \in 1..Len(soup.blocks) :
                        \E i \in 1..Len(soup.blocks[b].th) :
                            Contains(str_lower(soup.blocks[b].th[i]), wanted)}
    IN  IF matching = {} THEN <<>>
        ELSE <<soup.blocks[CHOOSE m \in matching : \A o \in matching : m <= o]>>

HasBody(t) == t # <<>> /\ t[1].table /\ t[1].tbody

WithCells(rows) == {i \in 1..Len(rows) : rows[i].ncols >= 3}

WithSrc(imgs) == {i \in 1..Len(imgs) : imgs[i].src # None /\ imgs[i].src # ""}

\* the j-th smallest element of a set of numbers
Nth(S, j) == CHOOSE i \in S : Cardinality({k \in S : k <= i}) = j

Extracted == {w \in 1..Len(threads) : threads[w].results # <<>>}

ImageGets(w) == SelectSeq(http_log[w], LAMBDA e : e.kind = "image")

\* C7: of the matched table's body, the rows with at least 3 cells are kept in
\* document order and the others dropped; a stat whose element is absent is
\* "N/A"; a kept row has one item per image with a source, possibly none.
C7_RowsKept ==
    \A w \in Extracted : \A category \in Categories :
        LET t == TheTable(threads[w].soup[1], header_text_of(category))
            out == threads[w].results[1][category]
        IN  HasBody(t) =>
              /\ Len(out) = Cardinality(WithCells(t[1].rows))
              /\ \A j \in 1..Len(out) :
                    LET row == t[1].rows[Nth(WithCells(t[1].rows), j)]
                    IN  /\ out[j].pick_rate = IF row.pick = None THEN "N/A" ELSE str_strip(row.pick)
                        /\ out[j].games = IF row.games = None THEN "N/A" ELSE str_strip(row.games)
                        /\ out[j].win_rate = IF row.win = None THEN "N/A" ELSE str_strip(row.win)
                        /\ Len(out[j].items) = Cardinality(WithSrc(row.imgs))

\* a 2-cell row dropped, and the 3-cell row after it kept with no stats and no items
C7_Witness ==
    \E w \in Extracted :
        LET blocks == threads[w].soup[1].blocks
        IN  /\ Len(blocks) = 1 /\ Len(blocks[1].rows) = 2
            /\ blocks[1].rows[1].ncols = 2 /\ blocks[1].rows[1].imgs # <<>>
            /\ threads[w].results[1]["Core Builds"]
                 = <<[items |-> <<>>, win_rate |-> "N/A", pick_rate |-> "N/A", games |-> "N/A"]>>

\* what C8 says of one item and the image it comes from
CountAsBadge(item, img) ==
    /\ item.count \in Int
    /\ (~img.relative \/ img.badge = None) => item.count = 1
    /\ (img.relative /\ img.badge # None) =>
          /\ item.count = IF int_accepts(str_strip(img.badge))
                          THEN int_value(str_strip(img.badge)) ELSE 1
          /\ (img.badge = "3" => item.count = 3)
          /\ (img.badge = " 3" => item.count = 3)
          /\ (img.badge = "33" => item.count = 33)
          /\ (img.badge = "x" => item.count = 1)
          /\ (img.badge = "3x" => item.count = 1)
          /\ (img.badge = "" => item.count = 1)
          /\ (img.badge = "-" => item.count = 1)
          /\ (img.badge = "0" => item.count = 0)
          /\ (img.badge = "-3" => item.count = 0 - 3)

ItemsAsBadges(positive) ==
    /\ \A w \in 1..Len(threads) : threads[w].pc # "crashed"
    /\ \A w \in Extracted : \A category \in Categories :
        LET t == TheTable(threads[w].soup[1], header_text_of(category))
            out == threads[w].results[1][category]
        IN  HasBody(t) =>
              /\ Len(out) = Cardinality(WithCells(t[1].rows))
              /\ \A j \in 1..Len(out) :
                    LET row == t[1].rows[Nth(WithCells(t[1].rows), j)]
                    IN  /\ Len(out[j].items) = Cardinality(WithSrc(row.imgs))
                        /\ \A k \in 1..Len(out[j].items) :
                              /\ CountAsBadge(out[j].items[k], row.imgs[Nth(WithSrc(row.imgs), k)])
                              /\ positive => out[j].items[k].count > 0

\* C8 as amended: the count is an integer, the badge's integer when the badge
\* text parses as one (zero and negative integers included) and 1 when the
\* badge is absent or its text does not parse; no extraction raises and no
\* row is dropped for it.
C8_CountFromBadge == ItemsAsBadges(FALSE)

\* C8 as stated: every count is moreover positive.
C8_Original == ItemsAsBadges(TRUE)

\* a badge "x" gave 1
C8_Witness ==
    \E w \in Extracted :
        LET blocks == threads[w].soup[1].blocks
        IN  /\ Len(blocks) = 1 /\ Len(blocks[1].rows) = 1
            /\ Len(blocks[1].rows[1].imgs) = 1
            /\ blocks[1].rows[1].imgs[1].relative
            /\ blocks[1].rows[1].imgs[1].badge = "x"
            /\ Len(threads[w].results[1]["Core Builds"]) = 1
            /\ threads[w].results[1]["Core Builds"][1].items[1].count = 1

\* C9: the result has exactly the four keys; a category whose header, table or
\* table body is absent is empty; every other category has its table's rows.
C9_FourCategories ==
    \A w \in Extracted :
        /\ DOMAIN threads[w].results[1] = {"Core Builds", "Starter Items", "Boots", "Skills"}
        /\ \A category \in DOMAIN threads[w].results[1] :
              LET t == TheTable(threads[w].soup[1],
                                CASE category = "Core Builds" -> "Core Builds"
                                  [] category = "Starter Items" -> "Starter Items"
                                  [] category = "Boots" -> "Boots"
                                  [] category = "Skills" -> "Skill")
                  out == threads[w].results[1][category]
              IN  /\ ~HasBody(t) => out = <<>>
                  /\ HasBody(t) => Len(out) = Cardinality(WithCells(t[1].rows))

\* a page without a Boots header: Boots is empty, the three others are not
C9_Witness ==
    \E w \in Extracted :
        /\ TheTable(threads[w].soup[1], "Boots") = <<>>
        /\ threads[w].results[1]["Boots"] = <<>>
        /\ \A category \in Categories \ {"Boots"} : threads[w].results[1][category] # <<>>

\* the position of a category in the order of the prefetch
OrderOf(category) == CHOOSE n \in 1..Len(CategoryOrder) : CategoryOrder[n] = category

Before(p, q) ==
    \/ OrderOf(p[1]) < OrderOf(q[1])
    \/ p[1] = q[1] /\ p[2] < q[2]
    \/ p[1] = q[1] /\ p[2] = q[2] /\ p[3] < q[3]

NoImageData(results) ==
    [category \in DOMAIN results |->
        [r \in 1..Len(results[category]) |->
            [results[category][r] EXCEPT !.items =
                [i \in 1..Len(results[category][r].items) |->
                    [results[category][r].items[i] EXCEPT !.image_data = None]]]]]

\* C10: no image download ends get_all_data; the image GETs are one per item
\* occurrence, in category, row, item order; an item that has been processed
\* holds the response's bytes exactly when its GET returned 200 and None
\* otherwise; rows and categories stay those of the extraction.
C10_ImagesAbsorbed ==
    /\ \A w \in 1..Len(threads) : threads[w].pc # "crashed"
    /\ \A w \in Extracted :
        LET results == threads[w].results[1]
            positions == {<<category, r, i>> :
                             category \in Categories, r \in 1..MaxRows + 1, i \in 1..MaxRows + 1}
            items == {p \in positions :
                         /\ p[2] <= Len(results[p[1]])
                         /\ p[3] <= Len(results[p[1]][p[2]].items)}
            rank(p) == Cardinality({q \in items : Before(q, p)}) + 1
            gets == ImageGets(w)
            processed == IF threads[w].pc = "done" THEN Cardinality(items)
                         ELSE threads[w].cursor - 1
        IN  /\ Len(gets) = processed
            /\ \A p \in items :
                 LET item == results[p[1]][p[2]].items[p[3]]
                 IN  /\ item.image_url # ""
                     /\ rank(p) > processed => item.image_data = None
                     /\ rank(p) <= processed =>
                          /\ gets[rank(p)].url =
                               IF SubSeq(item.image_url, 1, 2) = "//"
                               THEN "https:" \o item.image_url ELSE item.image_url
                          /\ (gets[rank(p)].exc = None /\ gets[rank(p)].status = 200)
                                => item.image_data = gets[rank(p)].content
                          /\ ~(gets[rank(p)].exc = None /\ gets[rank(p)].status = 200)
                                => item.image_data = None
            /\ NoImageData(results) = get_all_data_tables(threads[w].soup[1])

\* the same icon fetched twice for two occurrences, one GET answered 200 and
\* the other not, and get_all_data returned
C10_Witness ==
    \E w \in Extracted :
        /\ threads[w].pc = "done"
        /\ \E a, b \in 1..Len(ImageGets(w)) :
              /\ a < b
              /\ ImageGets(w)[a].url = ImageGets(w)[b].url
              /\ ImageGets(w)[a].status = 200
              /\ ImageGets(w)[b].status = 404
        /\ \E e \in 1..Len(ImageGets(w)) : ImageGets(w)[e].exc = "Timeout"

---------------------------------------------------------------------------
(* The application: up to MaxSearches searches                              *)

MaxSearches == 2

\* what the user may type into the name entry
InputTexts == {"  ", " Vel'Koz "}

NotABuildPage == [text |-> "OP.GG - page not found", blocks |-> <<>>]

ComingSoonPage == [text |-> "Starter Items: coming soon", blocks |-> <<>>]

BuildPage ==
    [text |-> "ARAM Build",
     blocks |-> <<Table(<<"Core Builds", "Pick Rate", "Win Rate">>,
                        <<Row(3, <<Img("//cdn/tear.png", "Tear of the Goddess", TRUE, "2")>>,
                              "12%", "1,024", "55%")>>)>>]

\* what session.get(url, timeout=10) can do for the page: return a response
\* (redirects are followed; 304 stands for the 1xx and 3xx statuses that a
\* response can still carry), or raise
PageResponses ==
    {[exc |-> None, status |-> 200, content |-> None, body |-> body] :
        body \in {NotABuildPage, ComingSoonPage, BuildPage}}
    \cup {[exc |-> None, status |-> status, content |-> None, body |-> body] :
             status \in {304, 404, 500}, body \in {NotABuildPage, BuildPage}}
    \cup {[exc |-> exc, status |-> 0, content |-> None, body |-> NotABuildPage] :
             exc \in {"Timeout", "ConnectionError"}}

Init == Constructed /\ arg = "" /\ ret = <<>>

\* the user edits the name
TypeName ==
    /\ \E text \in InputTexts : champ_var' = text
    /\ UNCHANGED <<fetch_btn, status_lbl, tabs, photo_refs, threads, after_q,
                   delivered, http_log, arg, ret>>

\* the Search button (line 224): a disabled button ignores the click
ClickSearch ==
    /\ fetch_btn = "normal"
    /\ Len(threads) < MaxSearches
    /\ on_fetch_click

\* <Return> in the name entry (line 222)
PressReturn ==
    /\ Len(threads) < MaxSearches
    /\ on_fetch_click

Worker ==
    \/ \E w \in 1..Len(threads) : \E resp \in PageResponses : FetchPage(w, resp)
    \/ \E w \in 1..Len(threads) : GetAllDataTables(w)
    \/ \E w \in 1..Len(threads) : FetchImage(w)
    \/ \E w \in 1..Len(threads) : WorkerReturn(w)

MainLoop == HandleError \/ HandleNotFound \/ UpdateUi

Next ==
    \/ TypeName
    \/ ClickSearch
    \/ PressReturn
    \/ \E w \in 1..Len(threads) : \E resp \in PageResponses : FetchPage(w, resp)
    \/ \E w \in 1..Len(threads) : GetAllDataTables(w)
    \/ \E w \in 1..Len(threads) : FetchImage(w)
    \/ \E w \in 1..Len(threads) : WorkerReturn(w)
    \/ HandleError
    \/ HandleNotFound
    \/ UpdateUi

Spec == Init /\ [][Next]_vars

\* Every request returns or times out, the threads are scheduled and the main
\* loop runs the callbacks handed to root.after.
FairSpec == Spec /\ WF_vars(Worker) /\ WF_vars(MainLoop)

\* the session.get calls of search w for its page
PageGets(w) == SelectSeq(http_log[w], LAMBDA e : e.kind = "page")

\* the callbacks of search w: those waiting in root.after and those run
Scheduled(w) == SelectSeq(after_q, LAMBDA c : c.sid = w)

Outcomes(w) == SelectSeq(delivered, LAMBDA c : c.sid = w)

\* C1: a search whose page GET answered 404 is delivered "not found"
\* (_handle_not_found), never "connection error" (_handle_error).
C1_NotFoundOn404 ==
    \A w \in 1..Len(threads) :
        (\E e \in 1..Len(PageGets(w)) :
            PageGets(w)[e].exc = None /\ PageGets(w)[e].status = 404)
        => \A d \in 1..Len(Outcomes(w)) : Outcomes(w)[d].kind = "_handle_not_found"

\* C2: at most one search has been started and not yet had its completion or
\* failure callback run.
C2_OneInFlight ==
    Cardinality({w \in 1..Len(threads) : Outcomes(w) = <<>>}) <= 1

\* C3: no search is ever delivered two outcomes, an outcome is one of the
\* three callbacks and a completed one carries the four categories, the
\* handling of an outcome leaves the Search button enabled, and every search
\* that was started is eventually delivered its outcome.
C3_OneOutcome ==
    /\ [](\A w \in 1..Len(threads) :
            /\ Len(Outcomes(w)) <= 1
            /\ \A d \in 1..Len(Outcomes(w)) :
                  /\ Outcomes(w)[d].kind \in {"_update_ui", "_handle_error", "_handle_not_found"}
                  /\ Outcomes(w)[d].kind = "_update_ui" =>
                        DOMAIN Outcomes(w)[d].results[1] = Categories)
    /\ [][delivered' # delivered => fetch_btn' = "normal"]_vars
    /\ \A w \in 1..MaxSearches : (Len(threads) >= w) ~> (Len(Outcomes(w)) = 1)

\* one search has been delivered its results and another "not found", and
\* the button is enabled again
C3_Witness ==
    /\ fetch_btn = "normal"
    /\ \E a, b \in 1..Len(delivered) :
          /\ delivered[a].kind = "_update_ui"
          /\ delivered[b].kind = "_handle_not_found"

\* C4: each tab shows exactly the rows of the results of the search started
\* last, and no row while that search has not completed.
C4_LatestOnly ==
    \A category \in Categories :
        LET shown == SelectSeq(tabs[category], LAMBDA x : x.kind = "row")
            latest == SelectSeq(delivered,
                                LAMBDA c : c.sid = Len(threads) /\ c.kind = "_update_ui")
        IN  IF latest = <<>> THEN shown = <<>>
            ELSE /\ \A i \in 1..Len(shown) : shown[i].sid = Len(threads)
                 /\ [i \in 1..Len(shown) |-> shown[i].data] = latest[1].results[1][category]

\* what C5 says of the searches whose page GET failed in the sense of Failure
ConnectionErrorFor(Failure(_)) ==
    \A w \in 1..Len(threads) :
        (\E e \in 1..Len(PageGets(w)) : Failure(PageGets(w)[e])) =>
            /\ Len(PageGets(w)) = 1
            /\ ImageGets(w) = <<>>
            /\ threads[w].pc = "done" /\ threads[w].results = <<>>
            /\ Len(Scheduled(w)) + Len(Outcomes(w)) = 1
            /\ \A c \in 1..Len(Scheduled(w)) : Scheduled(w)[c].kind = "_handle_error"
            /\ \A d \in 1..Len(Outcomes(w)) : Outcomes(w)[d].kind = "_handle_error"

---------------------------------------------------------------------------
(* The normalizer on its own: every string over NormAlphabet up to         *)
(* MaxNameLen characters, and the names the docstring lists.               *)

MaxNameLen == 3

NormAlphabet == {"a", "z", "V", "K", "'", " ", "&", ".", "7", "É"}

DocstringNames == {"Vel'Koz", "Dr. Mundo", "Lee Sin", "Nunu & Willump"}

NormInputs == StringsUpTo(NormAlphabet, MaxNameLen) \cup DocstringNames

NormInit == Constructed /\ arg \in NormInputs /\ ret = <<>>

Normalize ==
    /\ ret = <<>>
    /\ ret' = <<normalize_champion_name(arg)>>
    /\ UNCHANGED <<champ_var, fetch_btn, status_lbl, tabs, photo_refs, threads,
                   after_q, delivered, http_log, arg>>

SpecNormalize == NormInit /\ [][Normalize]_vars

\* C6: the result holds only a-z, is the lowercased input with the characters
\* outside a-z removed in order (the docstring's examples among them), and
\* normalizing it again changes nothing.
C6_Normalized ==
    ret # <<>> =>
        LET out == ret[1]
            low == str_lower(arg)
            kept == {i \in 1..Len(low) : At(low, i) \in AZ}
        IN  /\ \A i \in 1..Len(out) : At(out, i) \in AZ
            /\ Len(out) = Cardinality(kept)
            /\ \A i \in kept : At(out, Cardinality({j \in kept : j <= i})) = At(low, i)
            /\ (arg = "Vel'Koz" => out = "velkoz")
            /\ (arg = "Dr. Mundo" => out = "drmundo")
            /\ (arg = "Lee Sin" => out = "leesin")
            /\ (arg = "Nunu & Willump" => out = "nunuwillump")
            /\ (arg = "" => out = "")
            /\ normalize_champion_name(out) = out

C6_Witness == arg = "Nunu & Willump" /\ ret = <<"nunuwillump">>

====
